---- MODULE Spec2Model ----
(***************************************************************************)
(* Model of codegate's risk aggregation engine                             *)
(* (src/src/codegate/core/risk_engine.py) and of its static analyzer       *)
(* (src/src/codegate/core/static_analyzer.py).                             *)
(*                                                                         *)
(* A RiskEngine holds the external (Gemini) findings dict, total_lines and *)
(* the static analysis issues.  compute_risk_score and create_report are   *)
(* the two public operations.                                              *)
(*                                                                         *)
(* Python dicts are modelled as TLA+ functions whose DOMAIN is the set of  *)
(* keys present, so that dict.get(key, default) is a real lookup.          *)
(* Python floats are modelled by exact fractions (numerator, denominator); *)
(* int() truncates them.  All operands are non-negative, so truncation is  *)
(* floor.  The static weight 0.5 is kept exact by storing the static       *)
(* weights in half units.                                                  *)
(*                                                                         *)
(* A StaticCodeAnalyzer holds the source text as a sequence of lines, one  *)
(* statement per line, each line known by its kind and its nesting depth   *)
(* (4 spaces of indentation per level).  The syntax tree is read off the   *)
(* lines: the subtree of a statement is the run of deeper statements that  *)
(* follows it, and the traversal visits the statements in line order, as   *)
(* ast.NodeVisitor does.  Spec explores engines, SpecAnalyzer analyzers.   *)
(***************************************************************************)
EXTENDS Integers, Sequences, FiniteSets, TLC

VARIABLES findings, total_lines, static_findings,
          security_score, static_score, risk_score, report, pc, exc

\* The StaticCodeAnalyzer: its source lines, self.issues,
\* self.function_definitions, self.function_calls, self.used_names,
\* self.variable_assignments, self.complexity_stack, the complexity computed
\* for each function visited, the line of the node the traversal visits
\* next, the position within analyze(), the SyntaxError it caught, what it
\* returned and the exception that left it, the number of analyze() calls
\* made, and the list the first of them returned.
VARIABLES code, issues, function_definitions, function_calls, used_names,
          variable_assignments, complexity_stack, cyclomatic_complexity,
          node, analyzer_pc, caught, returned, analyzer_exc, analyze_calls,
          first_returned

engineVars == <<findings, total_lines, static_findings,
                security_score, static_score, risk_score, report, pc, exc>>

analyzerVars == <<code, issues, function_definitions, function_calls, used_names,
                  variable_assignments, complexity_stack, cyclomatic_complexity,
                  node, analyzer_pc, caught, returned, analyzer_exc,
                  analyze_calls, first_returned>>

\* The scan that waits while another one runs: the analyzer and the engine
\* of the scan commands.py starts, with whether the two scans have run in
\* turns.
VARIABLES suspended, interleaved

scanVars == <<suspended, interleaved>>

\* The HistoryManager: the entries of the history file, the save_history
\* setting the ConfigManager loaded, the clock, the entries save_scan has
\* stored so far, and the last call with what it returned.
VARIABLES history_file, save_history, now, saved_scans, history_result

historyVars == <<history_file, save_history, now, saved_scans, history_result>>

vars == <<engineVars, analyzerVars, scanVars, historyVars>>

(***************************************************************************)
(* Bounds of the model.                                                    *)
(***************************************************************************)
MaxFindings == 2
MaxStatic == 2
MaxProgramLines == 4
MaxAnalyzeCalls == 2
MaxReanalyzedLines == 3
MaxScanLines == 2
MaxOtherLines == 1
MaxSaves == 102
MaxLimit == 3

\* total_lines values explored: 0 (guarded division), 1 (maximal density),
\* 3 (density with a fractional part), 100 (the documented examples).
LineCounts == {0, 1, 3, 100}

(***************************************************************************)
(* Values.                                                                 *)
(***************************************************************************)
\* Python's None, as it appears where JSON null was decoded or where
\* dict.get() finds no key and has no default.
NoneValue == "None"

\* None in the place of the findings dict (the scanner's answer was JSON
\* null, or the caller had no answer to hand over).
NoneFindings == [none |-> TRUE]

\* Severity strings an external finding may carry: the four documented
\* ones, one of them in another letter case, and an unrecognised one.
SeverityStrings == {"low", "medium", "high", "critical", "HIGH", "bogus"}

\* An external finding is a dict decoded from the scanner's JSON answer.  Its
\* "severity" key may be absent, or hold a non-string (None, from JSON null).
ExternalFindings ==
    {[type |-> "sql_injection", line_number |-> 10, severity |-> s] :
         s \in SeverityStrings \cup {NoneValue}}
        \cup {[type |-> "sql_injection", line_number |-> 10]}

IssueKinds == {"logic", "performance", "relevance", "complexity"}
IssueSeverities == {"critical", "high", "medium", "low"}

\* StaticAnalysisIssue (static_analyzer.py), reduced to the attributes the
\* risk engine reads for scoring and tagging.  Here: every kind with every
\* severity, on one line and of one category.
StaticAnalysisIssue ==
    [type : IssueKinds, severity : IssueSeverities,
     category : {"unused_variable"}, line_number : {1}]

\* The issues combined with non-empty external findings: of different kinds
\* and severities, the 0.5 weight among them, on different lines.
SampleIssues ==
    {[type |-> "logic", severity |-> "high",
      category |-> "infinite_loop", line_number |-> 3],
     [type |-> "relevance", severity |-> "low",
      category |-> "unused_variable", line_number |-> 1],
     [type |-> "complexity", severity |-> "medium",
      category |-> "high_cyclomatic_complexity", line_number |-> 5]}

SeqsUpTo(S, n) == UNION {[1..k -> S] : k \in 0..n}

(***************************************************************************)
(* Helpers modelling Python built-ins.                                     *)
(***************************************************************************)
\* dict.get(key, default)
DictGet(d, key, default) == IF key \in DOMAIN d THEN d[key] ELSE default

\* str.lower() on the strings of the model
Lower(s) == IF s = "HIGH" THEN "high" ELSE s

Min(a, b) == IF a <= b THEN a ELSE b

\* A call either returns a value or raises.
Return(v) == [exc |-> "", value |-> v]
Raise(e) == [exc |-> e]
Raised(r) == r.exc # ""

\* Exact fractions stand for the floats of the score arithmetic.
Rat(n, d) == [n |-> n, d |-> d]
RatAdd(a, b) == Rat(a.n * b.d + b.n * a.d, a.d * b.d)
RatMul(a, b) == Rat(a.n * b.n, a.d * b.d)

\* a / b on numbers: ZeroDivisionError when b is 0.
TrueDiv(a, b) == IF b = 0 THEN Raise("ZeroDivisionError") ELSE Return(Rat(a, b))

\* int(x) for x >= 0: truncation.
Trunc(x) == x.n \div x.d

(***************************************************************************)
(* risk_engine.py                                                          *)
(***************************************************************************)
SEVERITY_WEIGHTS == [low |-> 1, medium |-> 3, high |-> 7, critical |-> 12]

\* static_weights, in half units (the table's 0.5 is 1 here).
static_weights ==
    [logic       |-> [critical |-> 16, high |-> 10, medium |-> 6, low |-> 2],
     performance |-> [critical |-> 12, high |-> 8,  medium |-> 4, low |-> 2],
     relevance   |-> [critical |-> 8,  high |-> 4,  medium |-> 2, low |-> 1],
     complexity  |-> [critical |-> 10, high |-> 6,  medium |-> 4, low |-> 2]]

\* Mutant: v["severity"] in place of v.get("severity", "low").
severity_weight_subscript(v) ==
    IF "severity" \notin DOMAIN v
    THEN Raise("KeyError")
    ELSE IF v.severity = NoneValue
         THEN Raise("AttributeError")
         ELSE Return(DictGet(SEVERITY_WEIGHTS, Lower(v.severity), 1))

\* Line 59: SEVERITY_WEIGHTS.get(v.get("severity", "low").lower(), 1)
\* None has no lower(): AttributeError.
severity_weight(v) ==
    LET sev == DictGet(v, "severity", "low")
    IN  IF sev = NoneValue
        THEN Raise("AttributeError")
        ELSE Return(DictGet(SEVERITY_WEIGHTS, Lower(sev), 1))

\* Lines 58-61: the sum over the vulnerabilities.
RECURSIVE total_weighted_severity(_)
total_weighted_severity(vs) ==
    IF vs = <<>>
    THEN Return(0)
    ELSE LET w == severity_weight(Head(vs))
             rest == total_weighted_severity(Tail(vs))
         IN  IF Raised(w) THEN w
             ELSE IF Raised(rest) THEN rest
             ELSE Return(w.value + rest.value)

\* Mutant: the density scaled by 50, as in the static score.
security_density_factor_x50(num, L) ==
    IF L > 0
    THEN LET q == TrueDiv(num, L)
         IN  IF Raised(q) THEN q ELSE Return(RatMul(q.value, Rat(50, 1)))
    ELSE Return(Rat(0, 1))

\* Mutant: the total_lines > 0 guard left out.
security_density_factor_unguarded(num, L) ==
    LET q == TrueDiv(num, L)
    IN  IF Raised(q) THEN q ELSE Return(RatMul(q.value, Rat(100, 1)))

\* Line 66: (num_vulnerabilities / total_lines) * 100 if total_lines > 0 else 0
security_density_factor(num, L) ==
    IF L > 0
    THEN LET q == TrueDiv(num, L)
         IN  IF Raised(q) THEN q ELSE Return(RatMul(q.value, Rat(100, 1)))
    ELSE Return(Rat(0, 1))

\* Lines 54-71: RiskEngine._compute_security_score
\* None has no get(): AttributeError.
compute_security_score(f, L) ==
    IF f = NoneFindings
    THEN Raise("AttributeError")
    ELSE IF "vulnerabilities" \notin DOMAIN f \/ f.vulnerabilities = <<>>
    THEN Return(0)
    ELSE LET tw == total_weighted_severity(f.vulnerabilities)
             density == security_density_factor(Len(f.vulnerabilities), L)
         IN  IF Raised(tw) THEN tw
             ELSE IF Raised(density) THEN density
             ELSE Return(Min(100, Trunc(RatAdd(Rat(tw.value, 1), density.value))))

\* Mutant: the issue's kind never found, so the logic table is always used.
static_weight_logic_only(finding) ==
    DictGet(static_weights.logic, finding.severity, 2)

\* Lines 87-89: the weight of one static issue, in half units.
static_weight(finding) ==
    DictGet(DictGet(static_weights, finding.type, static_weights.logic),
            finding.severity, 2)

\* Lines 85-90: total_static_score, in half units.
RECURSIVE total_static_score(_)
total_static_score(sf) ==
    IF sf = <<>> THEN 0 ELSE static_weight(Head(sf)) + total_static_score(Tail(sf))

\* Mutant: the density scaled by 100, as in the security score.
static_density_factor_x100(num, L) ==
    IF L > 0
    THEN LET q == TrueDiv(num, L)
         IN  IF Raised(q) THEN q ELSE Return(RatMul(q.value, Rat(100, 1)))
    ELSE Return(Rat(0, 1))

\* Line 93: (len(static_findings) / total_lines) * 50 if total_lines > 0 else 0
static_density_factor(num, L) ==
    IF L > 0
    THEN LET q == TrueDiv(num, L)
         IN  IF Raised(q) THEN q ELSE Return(RatMul(q.value, Rat(50, 1)))
    ELSE Return(Rat(0, 1))

\* Lines 73-96: RiskEngine._compute_static_analysis_score
compute_static_analysis_score(sf, L) ==
    IF sf = <<>>
    THEN Return(0)
    ELSE LET density == static_density_factor(Len(sf), L)
         IN  IF Raised(density) THEN density
             ELSE Return(Min(100, Trunc(RatAdd(Rat(total_static_score(sf), 2),
                                             density.value))))

\* Mutant: round() in place of int().
combined_score_rounded(security, static) ==
    Min(100, Trunc(RatAdd(RatAdd(RatMul(Rat(security, 1), Rat(8, 10)),
                                 RatMul(Rat(static, 1), Rat(2, 10))),
                          Rat(1, 2))))

\* Mutant: a score of at least 1.
combined_score_at_least_1(security, static) ==
    LET c == Min(100, Trunc(RatAdd(RatMul(Rat(security, 1), Rat(8, 10)),
                                   RatMul(Rat(static, 1), Rat(2, 10)))))
    IN  IF c < 1 THEN 1 ELSE c

\* Mutant: the static share mistyped as 0.1.
combined_score_static_tenth(security, static) ==
    Min(100, Trunc(RatAdd(RatMul(Rat(security, 1), Rat(8, 10)),
                          RatMul(Rat(static, 1), Rat(1, 10)))))

\* Line 51: min(100, int(security_score * 0.8 + static_score * 0.2))
combined_score(security, static) ==
    Min(100, Trunc(RatAdd(RatMul(Rat(security, 1), Rat(8, 10)),
                        RatMul(Rat(static, 1), Rat(2, 10)))))

\* Lines 46-52: RiskEngine.compute_risk_score.  The two locals are returned
\* with the result so that the actions can record them.
compute_risk_score(f, L, sf) ==
    LET sec == compute_security_score(f, L)
        st == compute_static_analysis_score(sf, L)
    IN  IF Raised(sec) THEN sec
        ELSE IF Raised(st) THEN st
        ELSE [exc |-> "", value |-> combined_score(sec.value, st.value),
              security_score |-> sec.value, static_score |-> st.value]

\* Lines 105-117: the Finding built from one external finding.
\* v.get("severity") has no default: None when the key is absent.
\* line_number is kept only when the dict has one (None otherwise);
\* category is the dataclass default, None.
security_finding(v) ==
    [vulnerability_type |-> DictGet(v, "type", NoneValue),
     severity |-> DictGet(v, "severity", NoneValue),
     line_number |-> DictGet(v, "line_number", 0),
     tool |-> "gemini",
     issue_type |-> "security",
     category |-> NoneValue]

\* Lines 120-133: the Finding built from one static issue.
\* vulnerability_type is category or type: the category unless it is empty.
static_finding(issue) ==
    [vulnerability_type |-> IF issue.category # "" THEN issue.category ELSE issue.type,
     severity |-> issue.severity,
     line_number |-> issue.line_number,
     tool |-> "static_analyzer",
     issue_type |-> issue.type,
     category |-> issue.category]

MapSeq(Op(_), s) == [i \in 1..Len(s) |-> Op(s[i])]

\* Mutant: the static issues appended before the external findings.
findings_list_static_first(f, sf) ==
    MapSeq(static_finding, sf)
        \o MapSeq(security_finding, DictGet(f, "vulnerabilities", <<>>))

\* Lines 101-133: findings_list
findings_list(f, sf) ==
    MapSeq(security_finding, DictGet(f, "vulnerabilities", <<>>))
        \o MapSeq(static_finding, sf)

\* counts[key] = counts.get(key, 0) + 1
Increment(counts, key) ==
    [k \in DOMAIN counts \cup {key} |->
        IF k = key THEN DictGet(counts, key, 0) + 1 ELSE counts[k]]

\* Mutant: counts[key] = 1, the earlier count forgotten.
OverwriteCount(counts, key) ==
    [k \in DOMAIN counts \cup {key} |-> IF k = key THEN 1 ELSE counts[k]]

\* Lines 165-170: the loop over the static findings, for one attribute.
RECURSIVE count_by(_, _, _)
count_by(sf, attr, counts) ==
    IF sf = <<>>
    THEN counts
    ELSE count_by(Tail(sf), attr, Increment(counts, Head(sf)[attr]))

RECURSIVE count_by_overwriting(_, _, _)
count_by_overwriting(sf, attr, counts) ==
    IF sf = <<>>
    THEN counts
    ELSE count_by_overwriting(Tail(sf), attr, OverwriteCount(counts, Head(sf)[attr]))

\* Mutant: the per-kind and per-severity counts overwritten, not incremented.
generate_static_analysis_summary_overwriting(sf) ==
    IF sf = <<>>
    THEN [total_issues |-> 0]
    ELSE [total_issues |-> Len(sf),
          by_type |-> count_by_overwriting(sf, "type", <<>>),
          by_severity |-> count_by_overwriting(sf, "severity", <<>>)]

\* Lines 156-184: RiskEngine._generate_static_analysis_summary
\* (for an empty list the dict has neither by_type nor by_severity)
generate_static_analysis_summary(sf) ==
    IF sf = <<>>
    THEN [total_issues |-> 0]
    ELSE [total_issues |-> Len(sf),
          by_type |-> count_by(sf, "type", <<>>),
          by_severity |-> count_by(sf, "severity", <<>>)]

\* Lines 98-154: RiskEngine.create_report
create_report(f, L, sf) ==
    LET score == compute_risk_score(f, L, sf)
        static_summary == generate_static_analysis_summary(sf)
    IN  IF Raised(score) THEN score
        ELSE Return([risk_score |-> score.value,
                     summary |-> [text |-> DictGet(f, "analysis_summary",
                                      "No security analysis summary provided."),
                                  static_part |-> static_summary.total_issues > 0],
                     vulnerabilities |-> findings_list(f, sf),
                     total_lines |-> L,
                     static_analysis_summary |-> static_summary])

(***************************************************************************)
(* The state machine: one RiskEngine and the calls made on it.             *)
(***************************************************************************)
NoReport == [risk_score |-> -1]

\* No analyzer is part of the engine's runs.
NoAnalyzer ==
    /\ code = <<>>
    /\ issues = <<>>
    /\ function_definitions = <<>>
    /\ function_calls = {}
    /\ used_names = {}
    /\ variable_assignments = <<>>
    /\ complexity_stack = <<>>
    /\ cyclomatic_complexity = <<>>
    /\ node = 0
    /\ analyzer_pc = "none"
    /\ caught = [none |-> TRUE]
    /\ analyze_calls = 0
    /\ first_returned = [none |-> TRUE]
    /\ returned = <<>>
    /\ analyzer_exc = ""

\* No scan waits, and no history is kept, in the runs of one engine or one
\* analyzer.
NotSuspended == [none |-> TRUE]
\* history_result: the call, its limit, and what it returned: the Optional
\* scan_id of save_scan (<<>> is None) or the entries of get_recent_scans.
NoCall == [call |-> "none", limit |-> 0, scan_id |-> <<>>, entries |-> <<>>]

NoScans ==
    /\ suspended = NotSuspended
    /\ interleaved = FALSE

NoHistory ==
    /\ history_file = <<>>
    /\ save_history = TRUE
    /\ now = 0
    /\ saved_scans = <<>>
    /\ history_result = NoCall

\* The findings dicts handed to the constructor: with a list of
\* vulnerabilities, or without the key.
FindingsDicts ==
    {[analysis_summary |-> "Test summary", vulnerabilities |-> vs] :
         vs \in SeqsUpTo(ExternalFindings, MaxFindings)}
        \cup {[analysis_summary |-> "Test summary"]}

\* The engines explored: every findings dict, and None, with every list of
\* sample issues, and every list of issues with no external findings.
EngineInputs ==
    ((FindingsDicts \cup {NoneFindings}) \X SeqsUpTo(SampleIssues, MaxStatic))
        \cup ({[analysis_summary |-> "Test summary", vulnerabilities |-> <<>>],
               [analysis_summary |-> "Test summary"]}
              \X SeqsUpTo(StaticAnalysisIssue, MaxStatic))

\* Lines 41-44: RiskEngine.__init__ (static_findings or [])
Init ==
    /\ \E inp \in EngineInputs :
          /\ findings = inp[1]
          /\ static_findings = inp[2]
    /\ total_lines \in LineCounts
    /\ security_score = -1
    /\ static_score = -1
    /\ risk_score = -1
    /\ report = NoReport
    /\ pc = "constructed"
    /\ exc = ""
    /\ NoAnalyzer
    /\ NoScans
    /\ NoHistory

\* engine.compute_risk_score()
ComputeRiskScore ==
    LET r == compute_risk_score(findings, total_lines, static_findings)
    IN  /\ IF Raised(r)
           THEN /\ pc' = "raised"
                /\ exc' = r.exc
                /\ UNCHANGED <<security_score, static_score, risk_score>>
           ELSE /\ pc' = "scored"
                /\ exc' = ""
                /\ security_score' = r.security_score
                /\ static_score' = r.static_score
                /\ risk_score' = r.value
        /\ UNCHANGED <<findings, total_lines, static_findings, report>>
        /\ UNCHANGED <<analyzerVars, scanVars, historyVars>>

\* Mutant: a create_report that consumes the static findings it reports.
CreateReportDraining ==
    LET r == create_report(findings, total_lines, static_findings)
    IN  /\ ~Raised(r)
        /\ pc' = "reported"
        /\ exc' = ""
        /\ security_score' = security_score
        /\ static_score' = static_score
        /\ risk_score' = r.value.risk_score
        /\ report' = r.value
        /\ static_findings' = <<>>
        /\ UNCHANGED <<findings, total_lines>>
        /\ UNCHANGED <<analyzerVars, scanVars, historyVars>>

\* engine.create_report(language, file_path, scan_duration)
CreateReport ==
    LET r == create_report(findings, total_lines, static_findings)
        score == compute_risk_score(findings, total_lines, static_findings)
    IN  /\ IF Raised(r)
           THEN /\ pc' = "raised"
                /\ exc' = r.exc
                /\ UNCHANGED <<security_score, static_score, risk_score, report>>
           ELSE /\ pc' = "reported"
                /\ exc' = ""
                /\ security_score' = score.security_score
                /\ static_score' = score.static_score
                /\ risk_score' = score.value
                /\ report' = r.value
        /\ UNCHANGED <<findings, total_lines, static_findings>>
        /\ UNCHANGED <<analyzerVars, scanVars, historyVars>>

Next == ComputeRiskScore \/ CreateReport

Spec == Init /\ [][Next]_vars

(***************************************************************************)
(* The static analyzer: source lines.                                      *)
(***************************************************************************)
\* Lines that open a block, lines that are one simple statement, and lines
\* that hold no statement of their own: blank, comment, and the second line
\* of a return expression that was broken in two.  A garbage line is text
\* that no Python statement matches.
HeaderKinds == {"def", "if", "for", "while_true", "with", "try", "except"}
SimpleKinds == {"break", "pass", "return", "return_value",
                "call", "assign", "unpack", "use", "len"}
TextKinds == {"blank", "comment", "continuation"}
GarbageKinds == {"garbage"}

\* def f():  /  if a and a and ...:  /  for x in xs:  /  while True:  /
\* with ctx:  /  try:  /  except:  /  break  /  pass  /  return  /  return x
\* f()  /  x = 0  /  x, _ = 0, 0  /  x  /  len(xs)
\* operands is the number of operands of the line's boolean expression
\* (0 when the line has none); name is the name the line defines, calls,
\* assigns or reads.
Line(kind, depth, operands, name) ==
    [kind |-> kind, depth |-> depth, operands |-> operands, name |-> name]

Statement(kind, depth) == Line(kind, depth, 0, "")

IsStatement(l) == l.kind \in HeaderKinds \cup SimpleKinds

\* The names the line reads (ast.Name nodes with a Load context) and the
\* names it calls (ast.Call nodes whose func is a Name).
Reads(l) ==
    CASE l.kind \in {"call", "use"} -> {l.name}
      [] l.kind = "len" -> {"len", "xs"}
      [] l.kind = "for" -> {"xs"}
      [] l.kind = "if" -> {"a"}
      [] l.kind = "with" -> {"ctx"}
      [] l.kind = "return_value" -> {"x"}
      [] OTHER -> {}

Calls(l) ==
    CASE l.kind = "call" -> {l.name}
      [] l.kind = "len" -> {"len"}
      [] OTHER -> {}

\* len(line) - len(line.lstrip()): 4 spaces per level, none on a blank line
Indentation(l) == IF l.kind = "blank" THEN 0 ELSE 4 * l.depth

\* line.strip() == ''  /  line.strip().startswith('#')
IsBlank(l) == l.kind = "blank"
IsComment(l) == l.kind = "comment"

Max(S) == CHOOSE x \in S : \A y \in S : y <= x

\* The statements of the text p, by line number.
Statements(p) == {i \in 1..Len(p) : IsStatement(p[i])}

\* The last statement of p (0 when it has none) and the last one at depth k,
\* which is the block header still open at that depth.
LastStatement(p) == IF Statements(p) = {} THEN 0 ELSE Max(Statements(p))
OpenAt(p, k) == Max({i \in Statements(p) : p[i].depth = k})

\* May the line l follow the text p in a text that ast.parse accepts?
\* A block header is followed by a statement one level deeper; a simple
\* statement by a statement at its depth or at the depth of an enclosing
\* block; except follows the block of a try or of an except of that try,
\* and a try closes only into its except.  Blank lines go anywhere, comments
\* stand where a statement could, a continuation follows its return.
CanFollow(p, l) ==
    LET last == LastStatement(p)
        d == l.depth
    IN  CASE l.kind = "blank" -> d = 0
          [] l.kind = "comment" ->
                d = IF last = 0 THEN 0
                    ELSE IF p[last].kind \in HeaderKinds THEN p[last].depth + 1
                    ELSE p[last].depth
          [] l.kind = "continuation" ->
                /\ p # <<>>
                /\ p[Len(p)].kind = "return_value"
                /\ d \in {p[Len(p)].depth, p[Len(p)].depth + 1}
          [] l.kind = "garbage" -> FALSE
          [] OTHER ->
                IF last = 0
                THEN d = 0 /\ l.kind # "except"
                ELSE IF p[last].kind \in HeaderKinds
                THEN d = p[last].depth + 1 /\ l.kind # "except"
                ELSE /\ d <= p[last].depth
                     /\ IF l.kind = "except"
                        THEN /\ d < p[last].depth
                             /\ p[OpenAt(p, d)].kind \in {"try", "except"}
                             /\ \A k \in (d + 1)..(p[last].depth - 1) :
                                    p[OpenAt(p, k)].kind # "try"
                        ELSE \A k \in d..(p[last].depth - 1) :
                                    p[OpenAt(p, k)].kind # "try"

\* Is p a whole program: no block left without a body, no try without except.
Complete(p) ==
    LET last == LastStatement(p)
    IN  last # 0 =>
            /\ p[last].kind \notin HeaderKinds
            /\ \A k \in 0..(p[last].depth - 1) : p[OpenAt(p, k)].kind # "try"

\* The texts of n lines over the given lines that a program can start with.
RECURSIVE ProgramStarts(_, _)
ProgramStarts(lines, n) ==
    IF n = 0
    THEN {<<>>}
    ELSE {Append(pl[1], pl[2]) :
             pl \in {x \in ProgramStarts(lines, n - 1) \X lines : CanFollow(x[1], x[2])}}

\* The programs of 1..n lines over the given lines.
Programs(lines, n) ==
    UNION {{p \in ProgramStarts(lines, k) : Complete(p)} : k \in 1..n}

Depths == 0..(MaxProgramLines - 1)

\* Boolean expressions of the if tests: none, or with so many operands that
\* a function holding the if has complexity 10 or 20, or one more with a loop.
IfOperands == {0, 9, 19}

\* Programs for the tree checks: every block kind, nested freely.
StructureLines ==
    {Statement(k, d) : k \in {"for", "while_true", "with", "try", "except", "break", "pass"},
                       d \in Depths}
        \cup {Line("if", d, n, "") : d \in Depths, n \in IfOperands}
        \cup {Line("def", d, 0, "f") : d \in Depths}

\* Programs for the checks on the text: returns, with blank lines, comments
\* and continuation lines between the statements.
TextLines ==
    {Statement(k, d) : k \in {"pass", "return", "return_value"} \cup TextKinds,
                       d \in Depths}
        \cup {Line("def", d, 0, "f") : d \in Depths}

\* Programs for the unused function check: functions that are called, not
\* called, or of a name that is never reported.
FunctionLines ==
    {Line("def", d, 0, n) : d \in Depths, n \in {"f", "_g", "main"}}
        \cup {Line("call", d, 0, "f") : d \in Depths}
        \cup {Statement("pass", d) : d \in Depths}

\* Programs for the unused variable check: names assigned, unpacked into and
\* read, inside and outside a function.
VariableLines ==
    {Line("assign", d, 0, n) : d \in Depths, n \in {"x", "_y", "self"}}
        \cup {Line(k, d, 0, "x") : k \in {"unpack", "use"}, d \in Depths}
        \cup {Line("def", d, 0, "f") : d \in Depths}

\* Programs for the repeated computation check: len calls in and around
\* for loops.
LoopLines ==
    {Statement(k, d) : k \in {"for", "len", "pass"}, d \in Depths}
        \cup {Line("def", d, 0, "f") : d \in Depths}

\* Numbers of statements in the body of a long function.
BodySizes == {49, 50, 51, 99, 100, 101}

\* The statements a long function begins with: one of each kind the
\* analyzer has a method for, or none.
BodyStarts ==
    {<<>>,
     <<Line("assign", 1, 0, "x")>>,
     <<Statement("for", 1), Statement("pass", 2)>>,
     <<Statement("while_true", 1), Statement("break", 2)>>,
     <<Statement("if", 1), Statement("pass", 2)>>}

\* A function of n statements: the start, then pass statements, with or
\* without a blank line and a comment before the last of them.
LongFunction(n, start, padded) ==
    <<Line("def", 0, 0, "f")>>
        \o start
        \o [i \in 1..(n - Len(start) - 1) |-> Statement("pass", 1)]
        \o (IF padded THEN <<Statement("blank", 0), Statement("comment", 1)>> ELSE <<>>)
        \o <<Statement("pass", 1)>>

LongFunctions ==
    {LongFunction(n, start, padded) : n \in BodySizes, start \in BodyStarts,
                                      padded \in BOOLEAN}

\* Texts that ast.parse rejects.
Unparsable == {[i \in 1..n |-> Statement("garbage", 0)] : n \in 1..MaxProgramLines}

\* The source texts of at most n lines that the analyzers are built on.
SourceTexts(n) ==
    Programs(StructureLines, n) \cup Programs(TextLines, n)
        \cup Programs(FunctionLines, n) \cup Programs(VariableLines, n)
        \cup Programs(LoopLines, n) \cup Unparsable

(***************************************************************************)
(* The static analyzer: the syntax tree and the checks.                    *)
(***************************************************************************)
\* Lines 8-19: StaticAnalysisIssue, as the analyzer builds it.  metric_value
\* is set by the complexity checks only.
Issue(type, category, severity, line_number) ==
    [type |-> type, category |-> category, severity |-> severity,
     line_number |-> line_number]

MetricIssue(type, category, severity, line_number, metric_value) ==
    [type |-> type, category |-> category, severity |-> severity,
     line_number |-> line_number, metric_value |-> metric_value]

\* The statements inside the node at line i: those that follow it, up to the
\* first statement that is not deeper than it.
Subtree(p, i) ==
    {j \in Statements(p) :
        /\ j > i
        /\ \A k \in (i + 1)..j : IsStatement(p[k]) => p[k].depth > p[i].depth}

\* ast.walk(node): the node and everything inside it
Walk(p, i) == {i} \cup Subtree(p, i)

\* node.end_lineno: the last line of the last statement inside the node
EndLine(p, i) ==
    LET last == Max(Walk(p, i))
    IN  IF last < Len(p) /\ p[last + 1].kind = "continuation" THEN last + 1 ELSE last

\* The node NodeVisitor visits after the one at line i (Len(p) + 1: none).
NextNode(p, i) ==
    IF \E j \in Statements(p) : j > i
    THEN CHOOSE j \in Statements(p) : j > i /\ \A k \in Statements(p) : k > i => j <= k
    ELSE Len(p) + 1

\* Mutant: a with block is no decision point.
DecisionPointsWithoutWith(l) ==
    (IF l.kind \in {"if", "while_true", "for", "except"} THEN 1 ELSE 0)
        + (IF l.operands > 0 THEN l.operands - 1 ELSE 0)

\* Lines 571-594: what ComplexityVisitor adds for one node: 1 for an If,
\* While, For, ExceptHandler or With, and len(values) - 1 for its BoolOp.
DecisionPoints(l) ==
    (IF l.kind \in {"if", "while_true", "for", "except", "with"} THEN 1 ELSE 0)
        + (IF l.operands > 0 THEN l.operands - 1 ELSE 0)

\* Lines 565-594: ComplexityVisitor().visit(node), a fresh visitor that
\* starts from 1 and walks the whole subtree, nested functions included.
ComplexityVisitor(p, i) ==
    LET inside == Subtree(p, i)
        complexity[j \in i..Len(p)] ==
            IF j = i
            THEN 1
            ELSE complexity[j - 1] + (IF j \in inside THEN DecisionPoints(p[j]) ELSE 0)
    IN  complexity[Len(p)]

\* Lines 173-183: the lines of the function that are neither blank nor comment
lines_of_code(p, i) ==
    Cardinality({k \in i..Min(EndLine(p, i), Len(p)) : ~IsBlank(p[k]) /\ ~IsComment(p[k])})

\* Lines 196-208: the long_function issue
long_function_issues(loc, lineno) ==
    IF loc > 50
    THEN <<MetricIssue("complexity", "long_function",
                       IF loc > 100 THEN "medium" ELSE "low", lineno, loc)>>
    ELSE <<>>

\* Mutant: a function is flagged from complexity 10 on.
high_complexity_issues_from_10(c, lineno) ==
    IF c >= 10
    THEN <<MetricIssue("complexity", "high_cyclomatic_complexity",
                       IF c > 20 THEN "medium" ELSE "low", lineno, c)>>
    ELSE <<>>

\* Lines 210-221: the high_cyclomatic_complexity issue
high_complexity_issues(c, lineno) ==
    IF c > 10
    THEN <<MetricIssue("complexity", "high_cyclomatic_complexity",
                       IF c > 20 THEN "medium" ELSE "low", lineno, c)>>
    ELSE <<>>

\* Lines 171-221: StaticCodeAnalyzer._check_function_complexity, the issues
\* it appends for the function at line i
check_function_complexity(p, i) ==
    long_function_issues(lines_of_code(p, i), i)
        \o high_complexity_issues(ComplexityVisitor(p, i), i)

\* Lines 299-317: StaticCodeAnalyzer._check_loop_performance.  (No modelled
\* loop has a lone append call as its body, lines 319-336.)
check_loop_performance(p, i) ==
    IF \E j \in Subtree(p, i) : p[j].kind \in {"for", "while_true"}
    THEN <<Issue("performance", "nested_loops", "medium", i)>>
    ELSE <<>>

\* Mutant: only the statements of the loop body itself are searched.
has_break_in_body(p, i) ==
    \E j \in Subtree(p, i) : p[j].kind = "break" /\ p[j].depth = p[i].depth + 1

\* Line 342: any(isinstance(n, ast.Break) for n in ast.walk(node))
has_break(p, i) == \E j \in Walk(p, i) : p[j].kind = "break"

\* Lines 338-353: StaticCodeAnalyzer._check_while_loop_logic
check_while_loop_logic(p, i) ==
    IF p[i].kind = "while_true" /\ ~has_break(p, i)
    THEN <<Issue("logic", "infinite_loop", "high", i)>>
    ELSE <<>>

\* self.function_definitions[func_name] = lineno: a dict keeps its keys in
\* the order of their first insertion.
DictStore(d, key, value) ==
    IF \E k \in 1..Len(d) : d[k].key = key
    THEN [k \in 1..Len(d) |-> IF d[k].key = key THEN [key |-> key, value |-> value] ELSE d[k]]
    ELSE Append(d, [key |-> key, value |-> value])

\* dict.get(key, default) on such a dict
DictLookup(d, key, default) ==
    IF \E k \in 1..Len(d) : d[k].key = key
    THEN d[CHOOSE k \in 1..Len(d) : d[k].key = key].value
    ELSE default

\* Lines 418-422: the names _check_unused_definitions never reports:
\* those that start with an underscore, and main
ExemptFunctions == {"main", "__init__", "__str__", "__repr__"}
StartsWithUnderscore(name) == name \in {"__init__", "__str__", "__repr__", "_g", "_y"}

\* Mutant: a function is reported whether it is called or not.
unused_function_issues_uncalled_or_not(name, lineno, calls) ==
    IF ~StartsWithUnderscore(name) /\ name \notin ExemptFunctions
    THEN <<Issue("relevance", "unused_function", "low", lineno)>>
    ELSE <<>>

\* Lines 418-433: the unused_function issue of one function_definitions item
unused_function_issues(name, lineno, calls) ==
    IF name \notin calls /\ ~StartsWithUnderscore(name) /\ name \notin ExemptFunctions
    THEN <<Issue("relevance", "unused_function", "low", lineno)>>
    ELSE <<>>

\* Lines 417-433: the loop over self.function_definitions.items()
RECURSIVE check_unused_functions(_, _)
check_unused_functions(defs, calls) ==
    IF defs = <<>>
    THEN <<>>
    ELSE unused_function_issues(Head(defs).key, Head(defs).value, calls)
             \o check_unused_functions(Tail(defs), calls)

\* Lines 450-463: the unused_variable issue of one variable_assignments
\* item, at line_nos[0]
unused_variable_issues(name, line_nos, used) ==
    IF name \notin used /\ ~StartsWithUnderscore(name) /\ name \notin {"self", "cls"}
    THEN <<Issue("relevance", "unused_variable", "low", line_nos[1])>>
    ELSE <<>>

\* Lines 449-463: the loop over self.variable_assignments.items()
RECURSIVE check_unused_variables(_, _)
check_unused_variables(assignments, used) ==
    IF assignments = <<>>
    THEN <<>>
    ELSE unused_variable_issues(Head(assignments).key, Head(assignments).value, used)
             \o check_unused_variables(Tail(assignments), used)

\* Lines 415-463: StaticCodeAnalyzer._check_unused_definitions.  No modelled
\* line defines a class (lines 435-447).
check_unused_definitions(defs, calls, assignments, used) ==
    check_unused_functions(defs, calls) \o check_unused_variables(assignments, used)

\* Lines 470-471: ' in [' in line or 'in(' in line.replace(' ', ''): of the
\* modelled lines, "def main():" holds "in(".
ContainsMembershipTest(l) == l.kind = "def" /\ l.name = "main"

\* Lines 469-481: the inefficient_membership_test issues, from line i on
RECURSIVE check_membership_tests(_, _)
check_membership_tests(p, i) ==
    IF i > Len(p)
    THEN <<>>
    ELSE (IF ContainsMembershipTest(p[i])
          THEN <<Issue("performance", "inefficient_membership_test", "medium", i)>>
          ELSE <<>>)
         \o check_membership_tests(p, i + 1)

\* Line 490: 'for ' in line and ':' in line  /  line 494: 'len(' in line
ContainsFor(l) == l.kind = "for"
ContainsLen(l) == l.kind = "len"

\* Line 493: self.lines[j].startswith('    ') or self.lines[j].strip() == ''
IndentedOrBlank(l) == IsBlank(l) \/ l.depth >= 1

\* Lines 490-506: the repeated_computation issue of the for at line i: the
\* first line with len( among the indented or blank lines that follow it
repeated_computation_issues(p, i) ==
    LET found == {j \in (i + 1)..Len(p) :
                     /\ ContainsLen(p[j])
                     /\ \A k \in (i + 1)..j : IndentedOrBlank(p[k])
                     /\ \A k \in (i + 1)..(j - 1) : ~ContainsLen(p[k])}
    IN  IF ContainsFor(p[i]) /\ found # {}
        THEN <<Issue("performance", "repeated_computation", "low", Max(found))>>
        ELSE <<>>

\* Lines 487-507: StaticCodeAnalyzer._check_repeated_computation, from
\* line i on
RECURSIVE check_repeated_computation(_, _)
check_repeated_computation(p, i) ==
    IF i > Len(p)
    THEN <<>>
    ELSE repeated_computation_issues(p, i) \o check_repeated_computation(p, i + 1)

\* Lines 465-485: StaticCodeAnalyzer._check_performance_patterns
check_performance_patterns(p) ==
    check_membership_tests(p, 1) \o check_repeated_computation(p, 1)

\* Line 522: any(keyword in line_stripped
\*               for keyword in ['return ', 'break', 'continue'])
\* "return x" and "break" hold a keyword; a bare "return", stripped, does
\* not end with the blank that 'return ' asks for.
ContainsKeyword(l) == l.kind \in {"return_value", "break"}

\* Lines 524-527: the next line that is neither blank nor a comment
\* (0: there is none)
NextCodeLine(p, i) ==
    LET later == {j \in (i + 1)..Len(p) : ~IsBlank(p[j]) /\ ~IsComment(p[j])}
    IN  IF later = {} THEN 0 ELSE CHOOSE j \in later : \A k \in later : j <= k

\* Lines 521-541: the unreachable_code issue of the line i
unreachable_code_issues(p, i) ==
    LET j == NextCodeLine(p, i)
    IN  IF ContainsKeyword(p[i]) /\ j # 0 /\ Indentation(p[j]) = Indentation(p[i])
        THEN <<Issue("logic", "unreachable_code", "medium", j)>>
        ELSE <<>>

\* Lines 509-541: StaticCodeAnalyzer._check_logic_patterns, from line i on
RECURSIVE check_logic_patterns(_, _)
check_logic_patterns(p, i) ==
    IF i > Len(p)
    THEN <<>>
    ELSE unreachable_code_issues(p, i) \o check_logic_patterns(p, i + 1)

\* A SyntaxError: lineno is an int or None, kept as a sequence of at most
\* one number.
SyntaxErrors(p) == {[lineno |-> <<>>]} \cup {[lineno |-> <<k>>] : k \in 1..(Len(p) + 1)}

NoError == [none |-> TRUE]

\* Lines 52-63: the except branch of analyze.  getattr(e, 'lineno', 1) is
\* e.lineno, None included: a SyntaxError always has the attribute.
\* self.lines holds at least one line; None - 1 is a TypeError, and a line
\* past the last one an IndexError.
syntax_error_issues(p, e) ==
    IF e.lineno = <<>>
    THEN Raise("TypeError")
    ELSE IF e.lineno[1] - 1 >= Len(p)
    THEN Raise("IndexError")
    ELSE Return(<<Issue("logic", "syntax_error", "critical", e.lineno[1])>>)

(***************************************************************************)
(* The state machine of one StaticCodeAnalyzer and its analyze() call.     *)
(***************************************************************************)
\* No engine is part of the analyzer's runs.
NoEngine ==
    /\ findings = NoneFindings
    /\ total_lines = 0
    /\ static_findings = <<>>
    /\ security_score = -1
    /\ static_score = -1
    /\ risk_score = -1
    /\ report = NoReport
    /\ pc = "none"
    /\ exc = ""

\* Nothing returned yet.
NotReturned == [none |-> TRUE]

\* Lines 25-38: StaticCodeAnalyzer.__init__
NewAnalyzer ==
    /\ issues = <<>>
    /\ function_definitions = <<>>
    /\ function_calls = {}
    /\ used_names = {}
    /\ variable_assignments = <<>>
    /\ complexity_stack = <<1>>
    /\ cyclomatic_complexity = <<>>
    /\ node = 0
    /\ analyzer_pc = "constructed"
    /\ caught = NoError
    /\ returned = <<>>
    /\ analyzer_exc = ""
    /\ analyze_calls = 0
    /\ first_returned = NotReturned

InitAnalyzer ==
    /\ code \in SourceTexts(MaxProgramLines)
    /\ NewAnalyzer
    /\ NoEngine
    /\ NoScans
    /\ NoHistory

\* complexity_stack[-1] += 1
IncrementTop(stack) == [stack EXCEPT ![Len(stack)] = @ + 1]

\* Lines 42-43 and 52-63: tree = ast.parse(self.code), and what analyze
\* does with the SyntaxError of a text that does not parse.  The list built
\* for a SyntaxError is a new one; the caller of the first call keeps it.
StartAnalyze ==
    /\ analyze_calls' = analyze_calls + 1
    /\ IF \E i \in 1..Len(code) : code[i].kind \in GarbageKinds
       THEN \E e \in SyntaxErrors(code) :
               LET r == syntax_error_issues(code, e)
               IN  /\ caught' = e
                   /\ IF Raised(r)
                      THEN /\ analyzer_pc' = "raised"
                           /\ analyzer_exc' = r.exc
                           /\ UNCHANGED <<returned, first_returned>>
                      ELSE /\ analyzer_pc' = "returned"
                           /\ returned' = r.value
                           /\ first_returned' =
                                 IF analyze_calls = 0
                                 THEN [is_issues |-> FALSE, value |-> r.value]
                                 ELSE first_returned
                           /\ UNCHANGED analyzer_exc
                   /\ UNCHANGED node
       ELSE /\ analyzer_pc' = "visiting"
            /\ node' = NextNode(code, 0)
            /\ UNCHANGED <<caught, returned, analyzer_exc, first_returned>>
    /\ UNCHANGED <<code, issues, function_definitions, function_calls, used_names,
                   variable_assignments, complexity_stack, cyclomatic_complexity>>
    /\ UNCHANGED <<engineVars, scanVars, historyVars>>

\* analyzer.analyze(), on a new analyzer
Parse ==
    /\ analyzer_pc = "constructed"
    /\ StartAnalyze

\* analyzer.analyze() once more, on an analyzer whose analyze() has returned
AnalyzeAgain ==
    /\ analyzer_pc = "returned"
    /\ analyze_calls < MaxAnalyzeCalls
    /\ StartAnalyze

Visiting(kinds) ==
    /\ analyzer_pc = "visiting"
    /\ node <= Len(code)
    /\ code[node].kind \in kinds

\* self.generic_visit(node): the expressions of the statement are visited,
\* visit_Name (lines 110-114) keeps the names read and visit_Call (lines
\* 116-129) the names called, and the traversal moves on to the next node.
Descend ==
    /\ used_names' = used_names \cup Reads(code[node])
    /\ function_calls' = function_calls \cup Calls(code[node])
    /\ node' = NextNode(code, node)
    /\ UNCHANGED <<code, analyzer_pc, caught, returned, analyzer_exc,
                   analyze_calls, first_returned>>
    /\ UNCHANGED <<engineVars, scanVars, historyVars>>

\* Lines 65-81: visit_FunctionDef.  _check_function_complexity pushes a
\* counter and pops it again before the body is visited (lines 186-194);
\* the function has no parameter to report (lines 240-263).
VisitFunctionDef ==
    /\ Visiting({"def"})
    /\ function_definitions' = DictStore(function_definitions, code[node].name, node)
    /\ complexity_stack' = SubSeq(Append(complexity_stack, 1), 1, Len(complexity_stack))
    /\ cyclomatic_complexity' =
          DictStore(cyclomatic_complexity, node, ComplexityVisitor(code, node))
    /\ issues' = issues \o check_function_complexity(code, node)
    /\ Descend
    /\ UNCHANGED variable_assignments

\* Lines 98-108: visit_Assign.  Only a target that is a plain name is kept
\* (line 101): the tuple of an unpacking is not.  The value is a constant,
\* no comparison for _check_assignment_patterns (lines 265-283).
VisitAssign ==
    /\ Visiting({"assign", "unpack"})
    /\ variable_assignments' =
          IF code[node].kind = "assign"
          THEN DictStore(variable_assignments, code[node].name,
                         Append(DictLookup(variable_assignments, code[node].name, <<>>), node))
          ELSE variable_assignments
    /\ Descend
    /\ UNCHANGED <<issues, function_definitions, complexity_stack, cyclomatic_complexity>>

\* Lines 143-147: visit_For
VisitFor ==
    /\ Visiting({"for"})
    /\ complexity_stack' = IncrementTop(complexity_stack)
    /\ issues' = issues \o check_loop_performance(code, node)
    /\ Descend
    /\ UNCHANGED <<function_definitions, variable_assignments, cyclomatic_complexity>>

\* Lines 149-153: visit_While
VisitWhile ==
    /\ Visiting({"while_true"})
    /\ complexity_stack' = IncrementTop(complexity_stack)
    /\ issues' = issues \o check_while_loop_logic(code, node)
    /\ Descend
    /\ UNCHANGED <<function_definitions, variable_assignments, cyclomatic_complexity>>

\* Lines 155-159: visit_If.  The test is a name or a boolean expression of
\* names: no constant for _check_conditional_logic (lines 355-381), no & for
\* _check_boolean_logic (lines 397-413).
VisitIf ==
    /\ Visiting({"if"})
    /\ complexity_stack' = IncrementTop(complexity_stack)
    /\ Descend
    /\ UNCHANGED <<issues, function_definitions, variable_assignments,
                   cyclomatic_complexity>>

\* ast.NodeVisitor.generic_visit: the statements the analyzer has no method
\* for.  The function called is a plain name, no sort or sorted attribute
\* for _check_call_performance (lines 285-297).
GenericVisit ==
    /\ Visiting({"with", "try", "except", "break", "pass", "return", "return_value",
                 "call", "use", "len"})
    /\ Descend
    /\ UNCHANGED <<issues, function_definitions, variable_assignments,
                   complexity_stack, cyclomatic_complexity>>

\* Lines 46-51: the checks after the traversal, and the return of
\* self.issues itself.
FinishAnalyze ==
    /\ analyzer_pc = "visiting"
    /\ node > Len(code)
    /\ issues' = issues \o check_unused_definitions(function_definitions, function_calls,
                                                    variable_assignments, used_names)
                        \o check_performance_patterns(code)
                        \o check_logic_patterns(code, 1)
    /\ returned' = issues'
    /\ first_returned' =
          IF analyze_calls = 1 THEN [is_issues |-> TRUE, value |-> issues'] ELSE first_returned
    /\ analyzer_pc' = "returned"
    /\ UNCHANGED <<code, function_definitions, function_calls, used_names,
                   variable_assignments, complexity_stack, cyclomatic_complexity,
                   node, caught, analyzer_exc, analyze_calls>>
    /\ UNCHANGED <<engineVars, scanVars, historyVars>>

NextAnalyzer ==
    \/ Parse
    \/ VisitFunctionDef
    \/ VisitAssign
    \/ VisitFor
    \/ VisitWhile
    \/ VisitIf
    \/ GenericVisit
    \/ FinishAnalyze

\* The analyzers built on the long functions.
InitLongFunction ==
    /\ code \in LongFunctions
    /\ NewAnalyzer
    /\ NoEngine
    /\ NoScans
    /\ NoHistory

SpecLongFunction == InitLongFunction /\ [][NextAnalyzer]_vars

\* The analyzers that analyze() is called on more than once.
InitReanalyze ==
    /\ code \in SourceTexts(MaxReanalyzedLines)
    /\ NewAnalyzer
    /\ NoEngine
    /\ NoScans
    /\ NoHistory

NextReanalyze ==
    \/ NextAnalyzer
    \/ AnalyzeAgain

SpecReanalyze == InitReanalyze /\ [][NextReanalyze]_vars

SpecAnalyzer == InitAnalyzer /\ [][NextAnalyzer]_vars

(***************************************************************************)
(* Two scans: src/codegate/cli/commands.py, lines 36-52.                   *)
(***************************************************************************)
\* Programs for the scans: one line of every kind the analyzer has a method
\* for, with a body.
ScanLines ==
    {Line(k, 0, 0, n) : k \in {"assign", "use"}, n \in {"x"}}
        \cup {Line(k, 0, 0, "f") : k \in {"def", "call"}}
        \cup {Statement(k, 0) : k \in {"for", "while_true", "if"}}
        \cup {Statement(k, 1) : k \in {"pass", "break"}}

\* The external analysis that found nothing.
NoVulnerabilities == [analysis_summary |-> "Test summary", vulnerabilities |-> <<>>]

\* Line 27: self.issues = [], a list of the instance.
instance_issues_shared(own, current) == current

instance_issues(own, current) == own

\* The analyzer and the engine of the running scan.
Instance ==
    [code |-> code, issues |-> issues, function_definitions |-> function_definitions,
     function_calls |-> function_calls, used_names |-> used_names,
     variable_assignments |-> variable_assignments,
     complexity_stack |-> complexity_stack,
     cyclomatic_complexity |-> cyclomatic_complexity, node |-> node,
     analyzer_pc |-> analyzer_pc, caught |-> caught, returned |-> returned,
     analyzer_exc |-> analyzer_exc, analyze_calls |-> analyze_calls,
     first_returned |-> first_returned,
     findings |-> findings, total_lines |-> total_lines,
     static_findings |-> static_findings, security_score |-> security_score,
     static_score |-> static_score, risk_score |-> risk_score, report |-> report,
     pc |-> pc, exc |-> exc]

\* Lines 25-38: the analyzer of a scan that has not begun
NewInstance(text) ==
    [code |-> text, issues |-> <<>>, function_definitions |-> <<>>,
     function_calls |-> {}, used_names |-> {}, variable_assignments |-> <<>>,
     complexity_stack |-> <<1>>, cyclomatic_complexity |-> <<>>, node |-> 0,
     analyzer_pc |-> "constructed", caught |-> NoError, returned |-> <<>>,
     analyzer_exc |-> "", analyze_calls |-> 0, first_returned |-> NotReturned,
     findings |-> NoneFindings, total_lines |-> 0, static_findings |-> <<>>,
     security_score |-> -1, static_score |-> -1, risk_score |-> -1,
     report |-> NoReport, pc |-> "none", exc |-> ""]

InitScans ==
    /\ code \in Programs(ScanLines, MaxScanLines)
    /\ NewAnalyzer
    /\ NoEngine
    /\ \E text \in Programs(ScanLines, MaxOtherLines) :
          /\ text # code
          /\ suspended = NewInstance(text)
    /\ interleaved = FALSE
    /\ NoHistory

\* The running scan waits and the waiting scan runs on: every field is the
\* instance's own.
Switch ==
    /\ suspended' = Instance
    /\ interleaved' =
          (interleaved \/ (analyzer_pc = "visiting" /\ suspended.analyzer_pc = "visiting"))
    /\ code' = suspended.code
    /\ issues' = instance_issues(suspended.issues, issues)
    /\ function_definitions' = suspended.function_definitions
    /\ function_calls' = suspended.function_calls
    /\ used_names' = suspended.used_names
    /\ variable_assignments' = suspended.variable_assignments
    /\ complexity_stack' = suspended.complexity_stack
    /\ cyclomatic_complexity' = suspended.cyclomatic_complexity
    /\ node' = suspended.node
    /\ analyzer_pc' = suspended.analyzer_pc
    /\ caught' = suspended.caught
    /\ returned' = suspended.returned
    /\ analyzer_exc' = suspended.analyzer_exc
    /\ analyze_calls' = suspended.analyze_calls
    /\ first_returned' = suspended.first_returned
    /\ findings' = suspended.findings
    /\ total_lines' = suspended.total_lines
    /\ static_findings' = suspended.static_findings
    /\ security_score' = suspended.security_score
    /\ static_score' = suspended.static_score
    /\ risk_score' = suspended.risk_score
    /\ report' = suspended.report
    /\ pc' = suspended.pc
    /\ exc' = suspended.exc
    /\ UNCHANGED historyVars

\* commands.py lines 38-44: static_issues = analyze_code_static(code) has
\* returned, and the RiskEngine is built on it.
BuildEngine ==
    /\ analyzer_pc = "returned"
    /\ pc = "none"
    /\ findings' = NoVulnerabilities
    /\ total_lines' = Len(code)
    /\ static_findings' = returned
    /\ pc' = "constructed"
    /\ UNCHANGED <<security_score, static_score, risk_score, report, exc>>
    /\ UNCHANGED <<analyzerVars, scanVars, historyVars>>

\* commands.py lines 48-52: risk_engine.create_report(...)
ScanReport ==
    /\ pc = "constructed"
    /\ CreateReport

NextScans ==
    \/ Switch
    \/ NextAnalyzer
    \/ BuildEngine
    \/ ScanReport

SpecScans == InitScans /\ [][NextScans]_vars

(***************************************************************************)
(* The scan history: src/codegate/utils/history.py.                        *)
(***************************************************************************)
\* The report data handed to save_scan.
Reports == {[file_path |-> "/tmp/vulnerable_test.py", risk_score |-> 85]}

\* The limits get_recent_scans is called with: small ones, and the default.
DefaultLimit == 20
Limits == 0..MaxLimit \cup {DefaultLimit}

\* Lines 87-104: the detailed entry save_scan builds for a report
detailed_entry(scan_id, report_data) ==
    [entry |-> [scan_id |-> scan_id, file_path |-> report_data.file_path,
                risk_score |-> report_data.risk_score],
     full_report |-> report_data]

\* Mutant: the first 100 entries are kept.
keep_first_100(entries) ==
    IF Len(entries) > 100 THEN SubSeq(entries, 1, 100) ELSE entries

\* Lines 112-114: entries[-100:] when there are more than 100 entries
keep_last_100(entries) ==
    IF Len(entries) > 100
    THEN SubSeq(entries, Len(entries) - 99, Len(entries))
    ELSE entries

\* s[-k:] for k >= 0: the last k elements, all of them when k exceeds the
\* length, and all of them when k is 0, since -0 is 0.
SliceFromMinus(s, k) ==
    IF k = 0 THEN s ELSE SubSeq(s, Max({Len(s) - k, 0}) + 1, Len(s))

\* reversed(s)
Reversed(s) == [i \in 1..Len(s) |-> s[Len(s) - i + 1]]

\* Lines 126-133: HistoryManager.get_recent_scans, on the entries loaded
get_recent_scans(entries, limit) ==
    LET recent == Reversed(SliceFromMinus(entries, limit))
    IN  [i \in 1..Len(recent) |-> recent[i].entry]

\* Lines 57-59 and config.py lines 6-8: a HistoryManager on an empty
\* history, with the setting the ConfigManager loaded.
InitHistory ==
    /\ history_file = <<>>
    /\ save_history \in BOOLEAN
    /\ now = 0
    /\ saved_scans = <<>>
    /\ history_result = NoCall
    /\ NoEngine
    /\ NoAnalyzer
    /\ NoScans

\* config.py lines 6-22: a later run loads the configuration again; the
\* history file stays.
LoadConfig ==
    /\ save_history' \in BOOLEAN
    /\ UNCHANGED <<history_file, now, saved_scans, history_result>>
    /\ UNCHANGED <<engineVars, analyzerVars, scanVars>>

\* Lines 70-122: history_manager.save_scan(report_data), the file read and
\* written without error.  The scan_id is the time of the call; no two
\* saves happen within one millisecond.
SaveScan ==
    /\ save_history => now < MaxSaves
    /\ \E report_data \in Reports :
          IF ~save_history
          THEN /\ history_result' =
                     [call |-> "save_scan", limit |-> 0, scan_id |-> <<>>,
                      entries |-> <<>>]
               /\ UNCHANGED <<history_file, now, saved_scans>>
          ELSE LET scan_id == now + 1
                   entry == detailed_entry(scan_id, report_data)
               IN  /\ now' = scan_id
                   /\ history_file' = keep_last_100(Append(history_file, entry))
                   /\ saved_scans' = Append(saved_scans, entry)
                   /\ history_result' =
                         [call |-> "save_scan", limit |-> 0, scan_id |-> <<scan_id>>,
                          entries |-> <<>>]
    /\ UNCHANGED save_history
    /\ UNCHANGED <<engineVars, analyzerVars, scanVars>>

\* Lines 124-137: history_manager.get_recent_scans(limit)
GetRecentScans ==
    /\ \E limit \in Limits :
          history_result' =
              [call |-> "get_recent_scans", limit |-> limit, scan_id |-> <<>>,
               entries |-> get_recent_scans(history_file, limit)]
    /\ UNCHANGED <<history_file, save_history, now, saved_scans>>
    /\ UNCHANGED <<engineVars, analyzerVars, scanVars>>

NextHistory ==
    \/ LoadConfig
    \/ SaveScan
    \/ GetRecentScans

SpecHistory == InitHistory /\ [][NextHistory]_vars

(***************************************************************************)
(* Vocabulary of the properties.                                           *)
(***************************************************************************)
\* The external findings list of the engine (empty when the key is absent).
Vulns == DictGet(findings, "vulnerabilities", <<>>)

\* The engine was given a findings dict, not None.
FindingsGiven == findings # NoneFindings

\* Some call has been made on the engine / the last call returned.
Called == pc # "constructed"
Scored == pc \in {"scored", "reported"}

HasSeverity(v) == "severity" \in DOMAIN v

\* The documented severities and their weights.
DocumentedWeight == [low |-> 1, medium |-> 3, high |-> 7, critical |-> 12]
WellFormed(v) == HasSeverity(v) /\ v.severity \in DOMAIN DocumentedWeight
AllWellFormed == \A i \in 1..Len(Vulns) : WellFormed(Vulns[i])

\* The severity, if any, is text.
StringOrMissing(v) == ~HasSeverity(v) \/ v.severity \in SeverityStrings
AllStringOrMissing == \A i \in 1..Len(Vulns) : StringOrMissing(Vulns[i])

SumInts(s) ==
    LET sum[i \in 0..Len(s)] == IF i = 0 THEN 0 ELSE sum[i - 1] + s[i]
    IN  sum[Len(s)]

\* floor((n / L) * scale), 0 when L = 0
DensityFloor(n, L, scale) == IF L = 0 THEN 0 ELSE (scale * n) \div L

Clamp(x) == IF x < 0 THEN 0 ELSE IF x > 100 THEN 100 ELSE x

\* Sum of the documented weights of well-formed findings.
DocumentedSum == SumInts([i \in 1..Len(Vulns) |-> DocumentedWeight[Vulns[i].severity]])

\* Sum of the static table's weights over the issues, in half units.
StaticHalfSum ==
    SumInts([i \in 1..Len(static_findings) |->
                static_weights[static_findings[i].type][static_findings[i].severity]])

(***************************************************************************)
(* C1: whatever the external findings (severity text of any kind, or no    *)
(* severity), the static issues and total_lines >= 0, the calls return,    *)
(* and the score returned by compute_risk_score and the risk_score of the  *)
(* report are integers in 0..100.                                          *)
(***************************************************************************)
C1_ScoreInRange ==
    /\ Scored => risk_score \in 0..100
    /\ pc = "reported" => report.risk_score \in 0..100
    /\ (Called /\ FindingsGiven /\ AllStringOrMissing) => pc # "raised"

\* A report whose score is clamped at 100, built from a finding without
\* severity and a finding with an unrecognised severity, plus static issues.
C1_Witness ==
    /\ pc = "reported"
    /\ report.risk_score = 100
    /\ \E i \in 1..Len(Vulns) : ~HasSeverity(Vulns[i])
    /\ \E i \in 1..Len(Vulns) : HasSeverity(Vulns[i]) /\ Vulns[i].severity = "bogus"
    /\ static_findings # <<>>

(***************************************************************************)
(* C2: with external findings and no static findings, the risk score is    *)
(* min(100, floor(sum of severity weights + (count / total_lines) * 100)), *)
(* and the report carries the same value (the repository's unit tests).    *)
(***************************************************************************)
C2_SecurityOnlyScore ==
    (Scored /\ static_findings = <<>> /\ Vulns # <<>> /\ AllWellFormed) =>
        /\ risk_score = Min(100, DocumentedSum + DensityFloor(Len(Vulns), total_lines, 100))
        /\ pc = "reported" => report.risk_score = risk_score

(***************************************************************************)
(* C3 as stated: the combined score is clamp(round(0.8*s + 0.2*t), 0, 100) *)
(* (0.8*s + 0.2*t is a multiple of 1/5, never a half: round is floor of    *)
(* the value plus 1/2).                                                    *)
(***************************************************************************)
C3_CombinedRounded ==
    Scored => risk_score = Clamp((2 * (4 * security_score + static_score) + 5) \div 10)

(***************************************************************************)
(* C3 amended: the combined score is clamp(floor(0.8*s + 0.2*t), 0, 100):  *)
(* the weighted value is truncated, not rounded.                           *)
(***************************************************************************)
C3_CombinedTruncated ==
    Scored => risk_score = Clamp((4 * security_score + static_score) \div 5)

\* A score whose weighted value has a fractional part of 0.6 or 0.8.
C3_Witness ==
    /\ Scored
    /\ (4 * security_score + static_score) % 5 >= 3

(***************************************************************************)
(* C4: the security sub-score of a non-empty findings list is the sum of   *)
(* the severity weights plus (count / total_lines) * 100 (0 when           *)
(* total_lines = 0), truncated and clamped to 0..100; of an empty list, 0. *)
(***************************************************************************)
C4_SecuritySubScore ==
    Scored =>
        IF Vulns = <<>>
        THEN security_score = 0
        ELSE AllWellFormed =>
                security_score =
                    Clamp(DocumentedSum + DensityFloor(Len(Vulns), total_lines, 100))

\* Two findings on three lines: density 66.67, truncated, below the clamp.
C4_Witness ==
    /\ Scored
    /\ Len(Vulns) = 2
    /\ AllWellFormed
    /\ total_lines = 3
    /\ security_score \in 68..99

(***************************************************************************)
(* C5: the static sub-score is the sum of the (kind, severity) weights of  *)
(* the issues plus (count / total_lines) * 50 (0 when total_lines = 0),    *)
(* truncated and clamped to 0..100; in the table, for each severity, the   *)
(* logic weight is the highest and the relevance weight the lowest.        *)
(***************************************************************************)
C5_StaticSubScore ==
    /\ \A k \in IssueKinds, sev \in IssueSeverities :
          /\ static_weights["logic"][sev] >= static_weights[k][sev]
          /\ static_weights["relevance"][sev] <= static_weights[k][sev]
    /\ Scored =>
          static_score =
              Clamp(IF total_lines = 0
                    THEN StaticHalfSum \div 2
                    ELSE (StaticHalfSum * total_lines + 100 * Len(static_findings))
                             \div (2 * total_lines))

\* Two issues, one of weight 0.5, on three lines.
C5_Witness ==
    /\ Scored
    /\ Len(static_findings) = 2
    /\ \E i \in 1..2 : /\ static_findings[i].type = "relevance"
                         /\ static_findings[i].severity = "low"
    /\ \E i \in 1..2 : static_findings[i].type = "performance"
    /\ total_lines = 3

(***************************************************************************)
(* C6: total_lines = 100, one external finding of severity high and one    *)
(* static issue (logic, high): security sub-score 8, static sub-score 5,   *)
(* combined score 7.                                                       *)
(***************************************************************************)
C6_Example ==
    /\ total_lines = 100
    /\ Len(Vulns) = 1
    /\ HasSeverity(Vulns[1])
    /\ Vulns[1].severity = "high"
    /\ Len(static_findings) = 1
    /\ static_findings[1].type = "logic"
    /\ static_findings[1].severity = "high"

C6_WorkedExample ==
    (Scored /\ C6_Example) =>
        /\ security_score = 8
        /\ static_score = 5
        /\ risk_score = 7

C6_Witness == pc = "scored" /\ C6_Example

(***************************************************************************)
(* C7: with no external findings and no static issues, create_report       *)
(* returns a report with risk_score 0 and no findings, whatever            *)
(* total_lines is.                                                         *)
(***************************************************************************)
C7_EmptyReport ==
    (Called /\ FindingsGiven /\ Vulns = <<>> /\ static_findings = <<>>) =>
        /\ pc # "raised"
        /\ risk_score = 0
        /\ pc = "reported" => (report.risk_score = 0 /\ report.vulnerabilities = <<>>)

C7_Witness ==
    /\ pc = "reported"
    /\ "vulnerabilities" \in DOMAIN findings
    /\ Vulns = <<>>
    /\ static_findings = <<>>
    /\ total_lines = 100

(***************************************************************************)
(* C8: sub-scores 100 and 100 combine to 100; sub-scores 0 and 0 to 0.     *)
(***************************************************************************)
C8_Boundaries ==
    Scored =>
        /\ (security_score = 100 /\ static_score = 100) => risk_score = 100
        /\ (security_score = 0 /\ static_score = 0) => risk_score = 0

C8_Witness ==
    /\ Scored
    /\ security_score = 100
    /\ static_score = 100
    /\ Vulns # <<>>
    /\ static_findings # <<>>

(***************************************************************************)
(* C9: with total_lines = 0 no call fails on a division, the calls return, *)
(* and the sub-scores are the clamped weighted sums alone.                 *)
(***************************************************************************)
C9_ZeroLines ==
    /\ exc # "ZeroDivisionError"
    /\ (total_lines = 0 /\ Called /\ FindingsGiven /\ AllStringOrMissing) => pc # "raised"
    /\ (total_lines = 0 /\ Scored) =>
          /\ AllWellFormed => security_score = Clamp(DocumentedSum)
          /\ static_score = Clamp(StaticHalfSum \div 2)

C9_Witness ==
    /\ pc = "reported"
    /\ total_lines = 0
    /\ Len(Vulns) = 2
    /\ AllWellFormed
    /\ Len(static_findings) = 2
    /\ security_score > 0
    /\ static_score > 0

(***************************************************************************)
(* C10: when some external findings have no severity or a severity that is *)
(* not low, medium, high or critical (in any letter case), scoring returns *)
(* for the whole batch and each such finding weighs 1, as low does.        *)
(***************************************************************************)
SeverityNamed == [low |-> "low", medium |-> "medium", high |-> "high",
                  critical |-> "critical", HIGH |-> "high"]

Malformed(v) == ~HasSeverity(v) \/ v.severity \notin DOMAIN SeverityNamed

ToleratedWeight(v) ==
    IF Malformed(v) THEN 1 ELSE DocumentedWeight[SeverityNamed[v.severity]]

C10_MalformedSeverityTolerated ==
    (Called /\ \E i \in 1..Len(Vulns) : Malformed(Vulns[i])) =>
        /\ pc # "raised"
        /\ security_score =
              Clamp(SumInts([i \in 1..Len(Vulns) |-> ToleratedWeight(Vulns[i])])
                    + DensityFloor(Len(Vulns), total_lines, 100))

(***************************************************************************)
(* C11: the report Finding built from an external finding that has no      *)
(* severity carries severity "low", the severity scoring gave it.          *)
(***************************************************************************)
C11_ReportSeverityDefaulted ==
    pc = "reported" =>
        \A i \in 1..Len(Vulns) :
            ~HasSeverity(Vulns[i]) => report.vulnerabilities[i].severity = "low"

(***************************************************************************)
(* C12: when the external findings are absent (None in the place of the    *)
(* dict, or a dict without a vulnerability list) or empty, no call raises, *)
(* the security sub-score is 0 and the report's findings are exactly the   *)
(* static issues.                                                          *)
(***************************************************************************)
C12_AbsentFindingsTolerated ==
    (Called /\ Vulns = <<>>) =>
        /\ pc # "raised"
        /\ Scored => security_score = 0
        /\ pc = "reported" =>
              report.vulnerabilities = MapSeq(static_finding, static_findings)

(***************************************************************************)
(* C13: the report's findings are the n external findings in input order,  *)
(* tagged with the security scanner as origin and "security" as issue      *)
(* kind, followed by the m static issues in input order, tagged with the   *)
(* structural analyzer as origin and the issue's kind as issue kind, with  *)
(* line, severity and category copied.                                     *)
(***************************************************************************)
C13_ReportFindings ==
    pc = "reported" =>
        LET n == Len(Vulns)
            m == Len(static_findings)
            fs == report.vulnerabilities
        IN  /\ Len(fs) = n + m
            /\ \A i \in 1..n :
                  /\ fs[i].tool = "gemini"
                  /\ fs[i].issue_type = "security"
                  /\ fs[i].vulnerability_type = DictGet(Vulns[i], "type", NoneValue)
                  /\ fs[i].severity = DictGet(Vulns[i], "severity", NoneValue)
                  /\ fs[i].line_number = Vulns[i].line_number
            /\ \A j \in 1..m :
                  /\ fs[n + j].tool = "static_analyzer"
                  /\ fs[n + j].issue_type = static_findings[j].type
                  /\ fs[n + j].line_number = static_findings[j].line_number
                  /\ fs[n + j].severity = static_findings[j].severity
                  /\ fs[n + j].category = static_findings[j].category

C13_Witness ==
    /\ pc = "reported"
    /\ Len(Vulns) = 2
    /\ Vulns[1] # Vulns[2]
    /\ Len(static_findings) = 2
    /\ static_findings[1] # static_findings[2]

(***************************************************************************)
(* C14: the report's static summary has the number of static issues as its *)
(* total (0 for an empty list), and its per-kind and per-severity counts   *)
(* are the numbers of issues of that kind and of that severity, each       *)
(* summing to the total.                                                   *)
(***************************************************************************)
IssuesOfKind(k) == {i \in 1..Len(static_findings) : static_findings[i].type = k}
IssuesOfSeverity(v) == {i \in 1..Len(static_findings) : static_findings[i].severity = v}

\* The sum of the values of a dict of counts.
RECURSIVE SumCounts(_)
SumCounts(counts) ==
    IF DOMAIN counts = {}
    THEN 0
    ELSE LET k == CHOOSE x \in DOMAIN counts : TRUE
         IN  counts[k] + SumCounts([x \in DOMAIN counts \ {k} |-> counts[x]])

C14_StaticSummary ==
    pc = "reported" =>
        LET s == report.static_analysis_summary
        IN  /\ s.total_issues = Len(static_findings)
            /\ static_findings # <<>> =>
                  /\ \A k \in IssueKinds :
                        DictGet(s.by_type, k, 0) = Cardinality(IssuesOfKind(k))
                  /\ \A v \in IssueSeverities :
                        DictGet(s.by_severity, v, 0) = Cardinality(IssuesOfSeverity(v))
                  /\ SumCounts(s.by_type) = s.total_issues
                  /\ SumCounts(s.by_severity) = s.total_issues

C14_Witness ==
    /\ pc = "reported"
    /\ Len(static_findings) = 2
    /\ static_findings[1].type = static_findings[2].type
    /\ static_findings[1].severity # static_findings[2].severity
    /\ report.static_analysis_summary.total_issues = 2

(***************************************************************************)
(* C15: the engine keeps no state between calls: a call leaves the         *)
(* findings, the static issues and the line count as they were, and every  *)
(* later call yields the risk score and the findings the earlier ones did. *)
(***************************************************************************)
C15_NoEngineState ==
    [][/\ findings' = findings
       /\ static_findings' = static_findings
       /\ total_lines' = total_lines
       /\ risk_score # -1 => risk_score' = risk_score
       /\ report # NoReport =>
             /\ report'.risk_score = report.risk_score
             /\ report'.vulnerabilities = report.vulnerabilities]_vars

\* A score computed after a report was made.
C15_Witness ==
    /\ pc = "scored"
    /\ report # NoReport
    /\ report.risk_score = risk_score
    /\ Len(report.vulnerabilities) = 4

(***************************************************************************)
(* Vocabulary of the analyzer's properties.                                *)
(***************************************************************************)
\* The text parses / analyze() has returned the issues of a text that parses.
Parsable == \A i \in 1..Len(code) : code[i].kind \notin GarbageKinds
Analyzed == analyzer_pc = "returned" /\ Parsable

\* The returned issues of a category at a line.
IssuesAt(category, line) ==
    {k \in 1..Len(returned) :
        returned[k].category = category /\ returned[k].line_number = line}

\* The lines of the function definitions and of the while True loops.
FunctionDefs == {i \in 1..Len(code) : code[i].kind = "def"}
WhileTrueLoops == {i \in 1..Len(code) : code[i].kind = "while_true"}

\* The complexity the analyzer computed for the function at line i.
Computed(i) ==
    LET k == CHOOSE k \in 1..Len(cyclomatic_complexity) : cyclomatic_complexity[k].key = i
    IN  cyclomatic_complexity[k].value

Measured == {cyclomatic_complexity[k].key : k \in 1..Len(cyclomatic_complexity)}

(***************************************************************************)
(* C16: a while True loop with no break at any depth of its body yields    *)
(* exactly one infinite_loop issue, of severity high, at the loop's line;  *)
(* with a break anywhere in its body it yields none.                       *)
(***************************************************************************)
BreakInside(i) == \E j \in Subtree(code, i) : code[j].kind = "break"

C16_InfiniteLoop ==
    Analyzed =>
        \A i \in WhileTrueLoops :
            IF BreakInside(i)
            THEN IssuesAt("infinite_loop", i) = {}
            ELSE /\ Cardinality(IssuesAt("infinite_loop", i)) = 1
                 /\ \A k \in IssuesAt("infinite_loop", i) : returned[k].severity = "high"

\* One loop without break, reported, and one with a break, not reported.
C16_Witness ==
    /\ Analyzed
    /\ \E i, j \in WhileTrueLoops :
          /\ ~BreakInside(i)
          /\ IssuesAt("infinite_loop", i) # {}
          /\ BreakInside(j)
          /\ IssuesAt("infinite_loop", j) = {}

BlockKinds == {"if", "for", "while_true", "except", "with"}

BlocksIn(i) == {j \in Subtree(code, i) : code[j].kind \in BlockKinds}

ExtraOperandsIn(i) ==
    SumInts([j \in 1..Len(code) |->
                IF j \in Subtree(code, i) /\ code[j].operands > 0
                THEN code[j].operands - 1
                ELSE 0])

C18_ComplexityCount ==
    \A i \in Measured :
        Computed(i) = 1 + Cardinality(BlocksIn(i)) + ExtraOperandsIn(i)

\* A function with a decision point and, nested in it, a function with none.
C18_Witness ==
    /\ Analyzed
    /\ \E i, j \in Measured :
          /\ j \in Subtree(code, i)
          /\ Computed(i) > 1
          /\ Computed(j) = 1

(***************************************************************************)
(* C19: every return statement, with or without a value, whose next line   *)
(* that is neither blank nor a comment has the return's indentation yields *)
(* exactly one unreachable_code issue of severity medium at that line; a   *)
(* next line of another indentation yields none.                           *)
(***************************************************************************)
Returns == {i \in 1..Len(code) : code[i].kind \in {"return", "return_value"}}

\* The lines after line i that are neither blank nor a comment.
CodeLinesAfter(i) ==
    {j \in (i + 1)..Len(code) : code[j].kind \notin {"blank", "comment"}}

C19_UnreachableAfterReturn ==
    Analyzed =>
        \A i \in Returns :
            \A j \in CodeLinesAfter(i) :
                (\A k \in CodeLinesAfter(i) : j <= k) =>
                    IF Indentation(code[j]) = Indentation(code[i])
                    THEN /\ Cardinality(IssuesAt("unreachable_code", j)) = 1
                         /\ \A k \in IssuesAt("unreachable_code", j) :
                               returned[k].severity = "medium"
                    ELSE IssuesAt("unreachable_code", j) = {}

(***************************************************************************)
(* C20: for a text that does not parse, analyze returns exactly one issue, *)
(* syntax_error of severity critical, at the line the failure reports or   *)
(* at line 1 when it reports none, and raises nothing, whatever line is    *)
(* reported.                                                               *)
(***************************************************************************)
C20_SyntaxErrorIssue ==
    (analyzer_pc \in {"returned", "raised"} /\ ~Parsable) =>
        /\ analyzer_pc = "returned"
        /\ Len(returned) = 1
        /\ returned[1].category = "syntax_error"
        /\ returned[1].severity = "critical"
        /\ returned[1].line_number = IF caught.lineno = <<>> THEN 1 ELSE caught.lineno[1]

(***************************************************************************)
(* C21: every loop, for or while, with another for or while loop anywhere  *)
(* in its body yields a nested_loops issue of severity medium at the outer *)
(* loop's line; a loop with no loop inside it yields none.                 *)
(***************************************************************************)
LoopKinds == {"for", "while_true"}
Loops == {i \in 1..Len(code) : code[i].kind \in LoopKinds}
LoopInside(i) == \E j \in Subtree(code, i) : code[j].kind \in LoopKinds

C21_NestedLoops ==
    Analyzed =>
        \A i \in Loops :
            IF LoopInside(i)
            THEN /\ Cardinality(IssuesAt("nested_loops", i)) = 1
                 /\ \A k \in IssuesAt("nested_loops", i) : returned[k].severity = "medium"
            ELSE IssuesAt("nested_loops", i) = {}

(***************************************************************************)
(* C22: a long_function issue is reported exactly when the body of a       *)
(* function has more than 50 lines that are neither blank nor comments: a  *)
(* body of exactly 50 such lines yields none, one of 51 to 100 an issue of *)
(* severity low, one of more than 100 an issue of severity medium.         *)
(***************************************************************************)
BodyLines(d) ==
    Cardinality({k \in (d + 1)..EndLine(code, d) : ~IsBlank(code[k]) /\ ~IsComment(code[k])})

C22_LongFunction ==
    Analyzed =>
        \A d \in FunctionDefs :
            IF BodyLines(d) > 50
            THEN /\ Cardinality(IssuesAt("long_function", d)) = 1
                 /\ \A k \in IssuesAt("long_function", d) :
                        returned[k].severity = IF BodyLines(d) > 100 THEN "medium" ELSE "low"
            ELSE IssuesAt("long_function", d) = {}

(***************************************************************************)
(* C23, as stated: every defined function whose name is never a call       *)
(* target yields exactly one unused_function issue of severity low at its  *)
(* definition line, unless the name is main, __init__, __str__ or          *)
(* __repr__; a function that is called yields none.                        *)
(***************************************************************************)
CalledNames == UNION {Calls(code[i]) : i \in Statements(code)}
DefinedNames == {code[d].name : d \in FunctionDefs}
DefinitionsOf(name) == {d \in FunctionDefs : code[d].name = name}

C23_UnusedFunctionAsStated ==
    Analyzed =>
        \A d \in FunctionDefs :
            IF code[d].name \notin CalledNames /\ code[d].name \notin ExemptFunctions
            THEN /\ Cardinality(IssuesAt("unused_function", d)) = 1
                 /\ \A k \in IssuesAt("unused_function", d) : returned[k].severity = "low"
            ELSE IssuesAt("unused_function", d) = {}

(***************************************************************************)
(* C23, amended: every defined function name that is never a call target,  *)
(* does not start with an underscore and is not main yields exactly one    *)
(* unused_function issue of severity low, at the line of the last          *)
(* definition of the name; every other defined name yields none.           *)
(***************************************************************************)
UnusedFunctionIssues(name) ==
    {k \in 1..Len(returned) :
        /\ returned[k].category = "unused_function"
        /\ returned[k].line_number \in DefinitionsOf(name)}

C23_UnusedFunction ==
    Analyzed =>
        \A name \in DefinedNames :
            IF /\ name \notin CalledNames
               /\ ~StartsWithUnderscore(name)
               /\ name \notin ExemptFunctions
            THEN /\ Cardinality(UnusedFunctionIssues(name)) = 1
                 /\ \A k \in UnusedFunctionIssues(name) :
                        /\ returned[k].severity = "low"
                        /\ returned[k].line_number = Max(DefinitionsOf(name))
            ELSE UnusedFunctionIssues(name) = {}

\* An analysis of a text that defines f twice and never calls it, and that
\* defines _g or main.
C23_Witness ==
    /\ Analyzed
    /\ Cardinality(DefinitionsOf("f")) = 2
    /\ "f" \notin CalledNames
    /\ UnusedFunctionIssues("f") # {}
    /\ DefinedNames \cap {"_g", "main"} # {}

(***************************************************************************)
(* C24: name tracking is flat: every assigned variable name that is never  *)
(* read anywhere yields exactly one unused_variable issue of severity low, *)
(* at the line of its first assignment, however many times it is assigned; *)
(* names that are read somewhere, names that start with an underscore,     *)
(* self and cls yield none.                                                *)
(***************************************************************************)
ReadNames == UNION {Reads(code[i]) : i \in Statements(code)}
AssignmentsOf(name) ==
    {i \in Statements(code) : code[i].kind \in {"assign", "unpack"} /\ code[i].name = name}
AssignedNames == {code[i].name : i \in {j \in Statements(code) : code[j].kind \in {"assign", "unpack"}}}
First(S) == CHOOSE x \in S : \A y \in S : x <= y

UnusedVariableIssues(name) ==
    {k \in 1..Len(returned) :
        /\ returned[k].category = "unused_variable"
        /\ returned[k].line_number \in AssignmentsOf(name)}

C24_UnusedVariable ==
    Analyzed =>
        \A name \in AssignedNames :
            IF /\ name \notin ReadNames
               /\ ~StartsWithUnderscore(name)
               /\ name \notin {"self", "cls"}
            THEN /\ Cardinality(UnusedVariableIssues(name)) = 1
                 /\ \A k \in UnusedVariableIssues(name) :
                        /\ returned[k].severity = "low"
                        /\ returned[k].line_number = First(AssignmentsOf(name))
            ELSE UnusedVariableIssues(name) = {}

(***************************************************************************)
(* C25: every line inside the indented body of a for loop that contains    *)
(* len( yields a repeated_computation issue of severity low at that line;  *)
(* the lines outside the body of every for loop yield none.                *)
(***************************************************************************)
ForLoops == {i \in 1..Len(code) : code[i].kind = "for"}
InForBody(j) == \E i \in ForLoops : j \in Subtree(code, i)

C25_RepeatedComputation ==
    Analyzed =>
        \A j \in 1..Len(code) :
            IF ContainsLen(code[j]) /\ InForBody(j)
            THEN /\ IssuesAt("repeated_computation", j) # {}
                 /\ \A k \in IssuesAt("repeated_computation", j) : returned[k].severity = "low"
            ELSE IssuesAt("repeated_computation", j) = {}

(***************************************************************************)
(* C26: scans share no mutable state: when two scans over different source *)
(* texts run with their steps interleaved in any order, the analyzer of    *)
(* each scan returns the issue list it returns when run alone, and the     *)
(* risk score of each scan is the score computed alone.                    *)
(***************************************************************************)
\* What a scan over the text p alone yields: the issues of the nodes in
\* the order of the traversal, then those of the checks on the whole text.
NodeIssues(p, i) ==
    CASE p[i].kind = "def" -> check_function_complexity(p, i)
      [] p[i].kind = "for" -> check_loop_performance(p, i)
      [] p[i].kind = "while_true" -> check_while_loop_logic(p, i)
      [] OTHER -> <<>>

RECURSIVE TraversalIssues(_, _)
TraversalIssues(p, i) ==
    IF i > Len(p) THEN <<>> ELSE NodeIssues(p, i) \o TraversalIssues(p, NextNode(p, i))

RECURSIVE DefinitionsFrom(_, _, _)
DefinitionsFrom(p, i, defs) ==
    IF i > Len(p) THEN defs
    ELSE DefinitionsFrom(p, i + 1,
                         IF p[i].kind = "def" THEN DictStore(defs, p[i].name, i) ELSE defs)

RECURSIVE AssignmentsFrom(_, _, _)
AssignmentsFrom(p, i, assignments) ==
    IF i > Len(p) THEN assignments
    ELSE AssignmentsFrom(p, i + 1,
                         IF p[i].kind = "assign"
                         THEN DictStore(assignments, p[i].name,
                                        Append(DictLookup(assignments, p[i].name, <<>>), i))
                         ELSE assignments)

AnalyzedAlone(p) ==
    TraversalIssues(p, NextNode(p, 0))
        \o check_unused_definitions(DefinitionsFrom(p, 1, <<>>),
                                    UNION {Calls(p[i]) : i \in Statements(p)},
                                    AssignmentsFrom(p, 1, <<>>),
                                    UNION {Reads(p[i]) : i \in Statements(p)})
        \o check_performance_patterns(p)
        \o check_logic_patterns(p, 1)

ScoredAlone(p) == compute_risk_score(NoVulnerabilities, Len(p), AnalyzedAlone(p)).value

\* The analyzer of every scan that has returned and the report of every
\* scan that has one are those of the scan alone.
AsAlone(scan) ==
    /\ scan.analyzer_pc = "returned" => scan.returned = AnalyzedAlone(scan.code)
    /\ scan.pc = "reported" => scan.risk_score = ScoredAlone(scan.code)

C26_ScansIndependent == AsAlone(Instance) /\ AsAlone(suspended)

\* Both scans have their report, each has found an issue, and they waited
\* for each other in the middle of their traversals.
C26_Witness ==
    /\ interleaved
    /\ pc = "reported"
    /\ suspended.pc = "reported"
    /\ returned # <<>>
    /\ suspended.returned # <<>>
    /\ risk_score > 0

\* An analyzer run alone returns what AnalyzedAlone says.
AnalyzedAloneIsAnalyze == Analyzed => returned = AnalyzedAlone(code)

(***************************************************************************)
(* C27: a complexity counter is pushed when a function definition is       *)
(* entered and popped when its subtree has been visited: when a for, while *)
(* or if statement is visited, the stack holds the base counter and one    *)
(* counter for each enclosing function, and when the traversal has ended   *)
(* the stack holds the base counter alone.                                 *)
(***************************************************************************)
EnclosingFunctions(i) == {d \in FunctionDefs : i \in Subtree(code, d)}

C27_ComplexityStack ==
    /\ Visiting({"for", "while_true", "if"}) =>
          Len(complexity_stack) = 1 + Cardinality(EnclosingFunctions(node))
    /\ Analyzed => Len(complexity_stack) = 1

(***************************************************************************)
(* C28: every issue is produced once per analysis run: a second call of   *)
(* analyze() on the same analyzer returns a list with the issues the first *)
(* call returned, none of them twice, and the list the first call returned *)
(* is not changed by the second call.                                      *)
(***************************************************************************)
\* The list the first call returned as it is now: self.issues itself, or the
\* list built for a SyntaxError.
FirstReturnedNow ==
    IF first_returned.is_issues THEN issues ELSE first_returned.value

C28_AnalyzeTwice ==
    (analyzer_pc = "returned" /\ analyze_calls = 2) =>
        /\ returned = first_returned.value
        /\ FirstReturnedNow = first_returned.value

(***************************************************************************)
(* C29: after any sequence of save_scan calls with history enabled, the    *)
(* stored history holds at most 100 entries, and they are the most         *)
(* recently saved scans in the order they were saved: after n saves, the   *)
(* last min(n, 100) of them.  While history saving is disabled, save_scan  *)
(* returns None and leaves the stored history unchanged.                   *)
(***************************************************************************)
LastOf(s, k) == SubSeq(s, Len(s) - k + 1, Len(s))

\* The step is a save_scan call made while saving is disabled.
SaveScanWhileDisabled ==
    /\ ~save_history
    /\ history_result' # history_result
    /\ history_result'.call = "save_scan"

C29_HistoryCapped ==
    [][/\ Len(history_file') <= 100
       /\ history_file' = LastOf(saved_scans', Min(Len(saved_scans'), 100))
       /\ SaveScanWhileDisabled =>
             /\ history_result'.scan_id = <<>>
             /\ history_file' = history_file]_vars

\* More than 100 scans have been saved, and the last call was a save_scan
\* while saving was disabled.
C29_Witness ==
    /\ Len(saved_scans) > 100
    /\ Len(history_file) = 100
    /\ history_file[1].entry.scan_id = Len(saved_scans) - 99
    /\ ~save_history
    /\ history_result.call = "save_scan"
    /\ history_result.scan_id = <<>>

(***************************************************************************)
(* C30: for a history of n stored entries and a limit >= 0,                *)
(* get_recent_scans(limit) returns exactly min(limit, n) entries, the most *)
(* recently saved ones, newest first; a limit of 0 returns no entry.       *)
(***************************************************************************)
C30_RecentScans ==
    history_result.call = "get_recent_scans" =>
        LET n == Len(history_file)
            k == Min(history_result.limit, n)
        IN  /\ Len(history_result.entries) = k
            /\ \A i \in 1..k : history_result.entries[i] = history_file[n - i + 1].entry

====
